---- MODULE Spec2Model ----
(***************************************************************************)
(* State-machine model of BitgetTradingBot (src/main.py): one trading      *)
(* cycle is a chain of exchange / advisory calls; every call is one step   *)
(* whose outcome the exchange (or the advisory service) chooses.           *)
(*                                                                         *)
(* Units.  Money is counted in thousandths of a USDT ("milli-USDT") when   *)
(* it is compared, quantities in thousandths of a contract (10^-3, the     *)
(* finest volumePlace the code defaults to), prices and balances in whole  *)
(* USDT, trigger prices of protective orders in hundredths of a USDT.      *)
(* The arithmetic is exact: the float rounding of the Python code is not   *)
(* modelled.  A text is a sequence of one-character strings.               *)
(*                                                                         *)
(* Spec is the trading cycle.  SizingSpec, StopSpec and ParseSpec run      *)
(* calculate_position_size, _set_stop_orders and _parse_ai_response on     *)
(* arguments drawn from sets; CacheSpec calls get_contract_info while the   *)
(* clock runs; FairSpec is Spec with the scheduling of start_bot.          *)
(***************************************************************************)
EXTENDS Integers, Sequences, FiniteSets, TLC

VARIABLES
    now,                  \* time.time(), in seconds
    exch,                 \* the exchange's positions: symbol -> signed total
    contract_info_cache,  \* self.contract_info_cache (a dict: symbol -> info)
    cache_update_time,    \* self.cache_update_time   (a dict: symbol -> time)
    pc,                   \* position of trading_cycle
    idx,                  \* index of the loop `for symbol in self.symbols`
    balance,              \* local `balance` of trading_cycle
    all_positions,        \* local `all_positions` of trading_cycle
    market_data,          \* local `market_data`: {} or {the dict}
    current_price,        \* local `current_price`
    ai_decision,          \* local `ai_decision`
    side,                 \* direction of the entry being prepared
    to_close,             \* positions close_existing_positions still has to close
    position_size,        \* local `position_size`
    price_precision,      \* local `price_precision` of _set_stop_orders
    prologue,             \* calls made by this cycle before the symbol loop
    calls,                \* calls made by this cycle for the current symbol
    visited,              \* symbols whose loop body this cycle has entered
    success,              \* local `success`: what place_order_with_stops returned
    response,             \* the advisory text handed to _parse_ai_response
    contract_info         \* what get_contract_info returned last: {} or {the dict}

vars == << now, exch, contract_info_cache, cache_update_time, pc, idx, balance,
           all_positions, market_data, current_price, ai_decision, side, to_close,
           position_size, price_precision, prologue, calls, visited, success,
           response, contract_info >>

----------------------------------------------------------------------------
(* Bounds of the model *)

\* largest position (in 10^-3 contracts) the exchange lets one symbol hold
MaxPos == 1
\* number of half-TTL periods the clock may advance
MaxTicks == 5

----------------------------------------------------------------------------
(* Configuration: the defaults of __init__ *)

symbols == << "ETHUSDT_UMCBL", "BTCUSDT_UMCBL" >>
Symbols == { symbols[i] : i \in 1..Len(symbols) }

max_position_percent == 10
stop_loss_percent == 2
take_profit_percent == 6
confidence_threshold == 6
min_balance == 10
max_position_value == 1000
cache_ttl == 3600

Opposite(d) == IF d = "long" THEN "short" ELSE "long"

----------------------------------------------------------------------------
(* The environment: what the exchange and the advisory service may answer *)

\* `available` values of the USDT account (whole USDT)
Balances == { 5, 40, 100 }
\* `last` prices of the ticker (whole USDT); 0 is a ticker without a price
Prices == { 0, 5000, 10000 }
\* confidences an advisory answer may carry (parsed values lie in 0..10)
Confidences == { confidence_threshold - 1, confidence_threshold }
Actions == { "buy", "sell", "hold" }

\* a contract record of the exchange's contract list; minTradeUSDT = 0 stands
\* for a record whose minTradeUSDT is missing or zero
RawContracts ==
    { [minTradeNum |-> 1, volumePlace |-> 3, priceEndStep |-> 2, minTradeUSDT |-> m] :
        m \in { 0, 5 } }

----------------------------------------------------------------------------
(* Records of the calls a cycle makes *)

Call(api, s, ok) ==
    [api |-> api, symbol |-> s, side |-> "-", orderType |-> "-", size |-> 0,
     triggerPrice |-> 0, ok |-> ok]

Order(s, sd, typ, sz, ok) ==
    [api |-> "placeOrder", symbol |-> s, side |-> sd, orderType |-> typ, size |-> sz,
     triggerPrice |-> 0, ok |-> ok]

\* a protective order: an order with a triggerPrice, in hundredths of a USDT
StopOrder(s, sd, typ, sz, trigger, ok) ==
    [Order(s, sd, typ, sz, ok) EXCEPT !.triggerPrice = trigger]

IsOrder(c) == c.api = "placeOrder"

----------------------------------------------------------------------------
(* get_current_positions: the exchange's list, zero totals filtered out *)

\* the k-th record of the exchange's position list; `total` is the signed
\* size the code reads with float(pos['total']): positive long, negative short
PositionRecord(e, k) == [symbol |-> symbols[k], total |-> e[symbols[k]]]

active_positions(e) ==
    SelectSeq([k \in 1..Len(symbols) |-> PositionRecord(e, k)],
              LAMBDA pos : pos.total # 0)

\* get_current_positions(symbol): the list filtered by symbol when one is given
get_current_positions(e, outcome, symbol) ==
    IF outcome = "ok"
    THEN IF symbol = "" THEN active_positions(e)
         ELSE SelectSeq(active_positions(e), LAMBDA pos : pos.symbol = symbol)
    ELSE << >>

has_long_position(positions, symbol) ==
    \E i \in 1..Len(positions) :
        positions[i].symbol = symbol /\ positions[i].total > 0

has_short_position(positions, symbol) ==
    \E i \in 1..Len(positions) :
        positions[i].symbol = symbol /\ positions[i].total < 0

----------------------------------------------------------------------------
(* get_contract_info *)

\* the contract_info built from a record of the contract list
ContractInfo(raw) ==
    [minTradeNum  |-> raw.minTradeNum,
     priceEndStep |-> raw.priceEndStep,
     volumePlace  |-> raw.volumePlace,
     minTradeUSDT |-> IF raw.minTradeUSDT = 0 THEN 5 ELSE raw.minTradeUSDT]

CacheFresh_inclusive(cache, times, symbol, t) ==
    /\ symbol \in DOMAIN cache
    /\ symbol \in DOMAIN times
    /\ t - times[symbol] <= cache_ttl

CacheFresh(cache, times, symbol, t) ==
    /\ symbol \in DOMAIN cache
    /\ symbol \in DOMAIN times
    /\ t - times[symbol] < cache_ttl

Put(dict, key, value) ==
    [k \in DOMAIN dict \cup {key} |-> IF k = key THEN value ELSE dict[k]]

\* answers of market_api.contracts as get_contract_info sees them
ContractOutcomes ==
    { [kind |-> "found", raw |-> r] : r \in RawContracts }
    \cup { [kind |-> k, raw |-> CHOOSE r \in RawContracts : TRUE] :
             k \in { "absent", "apiexc", "malformed" } }

\* get_contract_info(symbol) at time t, the exchange answering `o` if asked:
\* info is {} (the empty dict) or {contract_info}; raised: a record of the list
\* whose fields float()/int() cannot convert ends the call by an exception that
\* is no BitgetAPIException
get_contract_info(cache, times, symbol, t, o) ==
    IF CacheFresh(cache, times, symbol, t)
    THEN [info |-> {cache[symbol]}, cache |-> cache, times |-> times,
          queried |-> FALSE, raised |-> FALSE]
    ELSE IF o.kind = "found"
    THEN [info    |-> {ContractInfo(o.raw)},
          cache   |-> Put(cache, symbol, ContractInfo(o.raw)),
          times   |-> Put(times, symbol, t),
          queried |-> TRUE, raised |-> FALSE]
    ELSE [info |-> {}, cache |-> cache, times |-> times,
          queried |-> TRUE, raised |-> o.kind = "malformed"]

----------------------------------------------------------------------------
(* calculate_position_size, after the contract lookup *)

Max(a, b) == IF a >= b THEN a ELSE b
Min(a, b) == IF a <= b THEN a ELSE b

RECURSIVE Pow10(_)
Pow10(n) == IF n = 0 THEN 1 ELSE 10 * Pow10(n - 1)

\* decimal places of the quantity unit (10^-3 contracts)
QtyPlaces == 3

\* the quantity step of a contract, in quantity units
Step(info) == Pow10(QtyPlaces - info.volumePlace)

\* a truncation that keeps every digit
RoundDown_exact(q, step) == q

\* Decimal.quantize(..., ROUND_DOWN) and (..., ROUND_UP) of a non-negative quantity
RoundDown(q, step) == (q \div step) * step
RoundUp(q, step) == ((q + step - 1) \div step) * step

\* balance * (max_position_percent / 100) capped by max_position_value, milli-USDT
CandidateNotional(bal) ==
    Min(bal * max_position_percent * 10, max_position_value * 1000)

\* max(min_trade_usdt_from_api, min_trade_usdt_calculated, 5.0), milli-USDT
EffectiveMinimum(price, info) ==
    Max(Max(info.minTradeUSDT * 1000, info.minTradeNum * price), 5000)

\* the result that stands for the ZeroDivisionError of `max_position_value /
\* current_price`
ZeroDivision == 0 - 1

\* a minimum test that rejects nothing
BelowMinimum_never(final, minimum) == FALSE

\* `final_position_value_usdt < min_trade_usdt`
BelowMinimum(final, minimum) == final < minimum

\* a balance test that rejects nothing
ExceedsBalance_never(final, bal) == FALSE

\* `final_position_value_usdt > balance * 0.95`
ExceedsBalance(final, bal) == final > bal * 950

SizeFor(bal, price, info) ==
    LET min_trade_num == info.minTradeNum
        calculated    == min_trade_num * price
        candidate     == CandidateNotional(bal)
        relaxed       == candidate < EffectiveMinimum(price, info)
        min_trade_usdt == IF relaxed THEN calculated ELSE EffectiveMinimum(price, info)
        truncated     == RoundDown(candidate \div price, Step(info))
        size          == IF truncated < min_trade_num
                         THEN RoundUp(min_trade_num, Step(info))
                         ELSE truncated
        final         == size * price
    IN  IF relaxed /\ ~(candidate >= calculated /\ calculated >= 1000) THEN 0
        ELSE IF price = 0 THEN ZeroDivision
        ELSE IF BelowMinimum(final, min_trade_usdt) THEN 0
        ELSE IF ExceedsBalance(final, bal) THEN 0
        ELSE size

\* calculate_position_size: 0.0 without a contract_info
calculate_position_size(bal, price, info) ==
    IF info = {} THEN 0
    ELSE SizeFor(bal, price, CHOOSE i \in info : TRUE)

----------------------------------------------------------------------------
(* The decisions of trading_cycle *)

\* answers of an exchange call: a success response, a response with another
\* code (or without data), a BitgetAPIException, a success response whose data
\* the code cannot convert (float() or a subscript raises)
Outcomes == { "ok", "fail", "apiexc", "malformed" }

\* get_account_balance: 0.0 on every failure
get_account_balance(outcome, available) == IF outcome = "ok" THEN available ELSE 0

\* a balance test that stops the cycle only on an empty balance
InsufficientBalance_empty(bal) == bal <= 0

InsufficientBalance(bal) == bal < min_balance

\* get_market_data: {} after a BitgetAPIException, else the market_data dict,
\* whose current_price stays 0 without a success response of the ticker
get_market_data(outcome, last) ==
    IF outcome = "apiexc" THEN {}
    ELSE {[current_price |-> IF outcome = "ok" THEN last ELSE 0]}

\* a market-data test that forgets the price
MarketDataMissing_noprice(data) == data = {}

\* `not market_data or not market_data.get('current_price')`
MarketDataMissing(data) ==
    \/ data = {}
    \/ \E md \in data : md.current_price = 0

HoldDecision == [action |-> "hold", confidence |-> 0]

\* analyze_with_ai: the parsed decision, or hold/0 on a status other than 200
\* and on every exception
analyze_with_ai(outcome, decision) == IF outcome = "ok" THEN decision ELSE HoldDecision

\* a confidence test that is off by one
LowConfidence_offbyone(decision) == decision.confidence < confidence_threshold - 1

LowConfidence(decision) == decision.confidence < confidence_threshold

\* a branch selection that forgets the positions already held
EntryDirection_blind(action, positions, sym) ==
    IF action = "buy" THEN "long"
    ELSE IF action = "sell" THEN "short"
    ELSE "none"

\* the branch of trading_cycle an advisory action selects: the direction to
\* enter, or "none"
EntryDirection(action, positions, sym) ==
    IF action = "buy" /\ ~has_long_position(positions, sym) THEN "long"
    ELSE IF action = "sell" /\ ~has_short_position(positions, sym) THEN "short"
    ELSE "none"

\* whether the branch calls close_existing_positions first
MustCloseFirst_always(direction, positions, symbol) == TRUE

MustCloseFirst(direction, positions, symbol) ==
    IF direction = "long" THEN has_short_position(positions, symbol)
    ELSE has_long_position(positions, symbol)

Abs(x) == IF x < 0 THEN 0 - x ELSE x

\* the close order of close_existing_positions for one position
CloseSide(total) == IF total > 0 THEN "close_long" ELSE "close_short"
CloseSize(total) == Abs(total)

\* the stop side of _set_stop_orders
StopSide_swapped(direction) ==
    IF direction = "long" THEN "close_short" ELSE "close_long"

StopSide(direction) == IF direction = "long" THEN "close_long" ELSE "close_short"

\* entry_price * (1 -+ stop_loss_percent / 100), in hundredths of a USDT
stop_price(direction, entry_price) ==
    IF direction = "long" THEN entry_price * (100 - stop_loss_percent)
    ELSE entry_price * (100 + stop_loss_percent)

\* entry_price * (1 +- take_profit_percent / 100), in hundredths of a USDT
take_profit_price(direction, entry_price) ==
    IF direction = "long" THEN entry_price * (100 + take_profit_percent)
    ELSE entry_price * (100 - take_profit_percent)

\* decimal places of the unit of trigger prices (10^-2 USDT)
PricePlaces == 2

\* a rounding that cuts the digits off
round_cut(x, ndigits) ==
    IF ndigits >= PricePlaces THEN x
    ELSE (x \div Pow10(PricePlaces - ndigits)) * Pow10(PricePlaces - ndigits)

\* round(x, ndigits) of a non-negative x given in hundredths: the nearest
\* multiple of 10^-ndigits, a tie going to the even one
round(x, ndigits) ==
    IF ndigits >= PricePlaces THEN x
    ELSE LET unit == Pow10(PricePlaces - ndigits)
             q    == x \div unit
             r    == x % unit
         IN  IF 2 * r < unit THEN q * unit
             ELSE IF 2 * r > unit THEN (q + 1) * unit
             ELSE IF q % 2 = 0 THEN q * unit
             ELSE (q + 1) * unit

\* an entry test that forgets the response code
EntryAccepted_nocode(outcome) == outcome # "apiexc"

\* whether place_order_with_stops goes on to _set_stop_orders
EntryAccepted(outcome) == outcome = "ok"

\* a result that asks the protective order to have been accepted
AfterStops_strict(outcome) == IF outcome = "ok" THEN "True" ELSE "False"

\* what place_order_with_stops returns after _set_stop_orders came back: True,
\* whatever the last protective order submitted was answered
AfterStops(outcome) == "True"

----------------------------------------------------------------------------
(* The exchange *)

\* the signed change of a symbol's total that an accepted market order makes
Signed(d, q) == IF d = "long" THEN q ELSE 0 - q

\* a market order the exchange can accept: an opening order within the position
\* limit, a closing order not larger than the position it closes
CanOpen(e, s, d, q) == Abs(e[s] + Signed(d, q)) <= MaxPos
CanClose(e, s, closeSide, q) ==
    IF closeSide = "close_long" THEN e[s] >= q ELSE 0 - e[s] >= q

Opened(e, s, d, q) == [e EXCEPT ![s] = @ + Signed(d, q)]
Closed(e, s, closeSide, q) ==
    [e EXCEPT ![s] = IF closeSide = "close_long" THEN @ - q ELSE @ + q]

\* the open position of a symbol in one direction
Held(e, s, d) == IF d = "long" THEN Max(e[s], 0) ELSE Max(0 - e[s], 0)

----------------------------------------------------------------------------
(* The state machine *)

OpenSide(direction) == IF direction = "long" THEN "open_long" ELSE "open_short"

NoPositions == [s \in Symbols |-> 0]

Init ==
    /\ now = 0
    /\ exch = NoPositions
    /\ contract_info_cache = << >>
    /\ cache_update_time = << >>
    /\ pc = "idle"
    /\ idx = 0
    /\ balance = 0
    /\ all_positions = << >>
    /\ market_data = {}
    /\ current_price = 0
    /\ ai_decision = HoldDecision
    /\ side = "none"
    /\ to_close = << >>
    /\ position_size = 0
    /\ price_precision = 2
    /\ prologue = << >>
    /\ calls = << >>
    /\ visited = {}
    /\ success = "none"
    /\ response = << >>
    /\ contract_info = {}

symbol == symbols[idx]

\* the locals of one loop iteration, before the iteration assigns them
FreshIteration ==
    /\ market_data' = {}
    /\ current_price' = 0
    /\ ai_decision' = HoldDecision
    /\ side' = "none"
    /\ to_close' = << >>
    /\ position_size' = 0
    /\ price_precision' = 2
    /\ success' = "none"
    /\ contract_info' = {}

SameIteration ==
    UNCHANGED << market_data, current_price, ai_decision, side, to_close, position_size,
                 price_precision >>

\* the locals of trading_cycle, before the cycle assigns them
FreshCycle ==
    /\ idx' = 0
    /\ balance' = 0
    /\ all_positions' = << >>
    /\ prologue' = << >>
    /\ calls' = << >>
    /\ visited' = {}
    /\ FreshIteration

\* an exception that is no BitgetAPIException leaves the step for the handler
\* `except Exception` of trading_cycle
Raise_fatal == pc' = "terminated"

Raise == pc' = "except"

\* trading_cycle, from its start to the balance check
GetAccountBalance ==
    /\ pc = "idle"
    /\ \E o \in Outcomes, available \in Balances :
        /\ prologue' = << Call("accounts", "", o = "ok") >>
        /\ balance' = get_account_balance(o, available)
        /\ IF o = "malformed" THEN Raise
           ELSE IF InsufficientBalance(get_account_balance(o, available))
           THEN pc' = "insufficient"
           ELSE pc' = "positions"
    /\ idx' = 0
    /\ all_positions' = << >>
    /\ calls' = << >>
    /\ visited' = {}
    /\ FreshIteration
    /\ UNCHANGED << response, now, exch, contract_info_cache, cache_update_time >>

\* all_positions = self.get_current_positions(), then the loop starts
FetchPositions ==
    /\ pc = "positions"
    /\ \E o \in Outcomes :
        /\ prologue' = Append(prologue, Call("allPosition", "", o = "ok"))
        /\ all_positions' = get_current_positions(exch, o, "")
        /\ IF o = "malformed" THEN Raise /\ idx' = idx
           ELSE IF Len(symbols) = 0
           THEN pc' = "return" /\ idx' = idx
           ELSE pc' = "market" /\ idx' = 1
    /\ SameIteration
    /\ UNCHANGED << contract_info, response, success,
                    now, exch, contract_info_cache, cache_update_time, balance,
                    calls, visited >>

\* market_data = self.get_market_data(symbol) and the test that follows it
GetMarketData ==
    /\ pc = "market"
    /\ \E o \in Outcomes, last \in Prices :
        /\ calls' = Append(calls, Call("ticker", symbol, o = "ok"))
        /\ IF o = "malformed"
           THEN Raise /\ UNCHANGED << market_data, current_price >>
           ELSE /\ market_data' = get_market_data(o, last)
                /\ IF MarketDataMissing(get_market_data(o, last))
                   THEN pc' = "next" /\ current_price' = current_price
                   ELSE pc' = "advise" /\ current_price' = last
    /\ visited' = visited \cup {symbol}
    /\ UNCHANGED << contract_info, response, success,
                    now, exch, contract_info_cache, cache_update_time, idx, balance,
                    all_positions, ai_decision, side, to_close, position_size,
                    price_precision, prologue >>

\* ai_decision = self.analyze_with_ai(...) and the branch on it
AnalyzeWithAI ==
    /\ pc = "advise"
    /\ \E o \in { "ok", "fail" }, a \in Actions, c \in Confidences :
        LET decision  == analyze_with_ai(o, [action |-> a, confidence |-> c])
            direction == EntryDirection(decision.action, all_positions, symbol)
        IN  /\ calls' = Append(calls, Call("advisory", symbol, o = "ok"))
            /\ ai_decision' = decision
            /\ IF LowConfidence(decision) \/ direction = "none"
               THEN pc' = "next" /\ side' = side
               ELSE /\ side' = direction
                    /\ pc' = IF MustCloseFirst(direction, all_positions, symbol)
                             THEN "refetch" ELSE "size"
    /\ UNCHANGED << contract_info, response, success,
                    now, exch, contract_info_cache, cache_update_time, idx, balance,
                    all_positions, market_data, current_price, to_close, position_size,
                    price_precision, prologue, visited >>

\* close_existing_positions: positions = self.get_current_positions(symbol)
CloseRefetch ==
    /\ pc = "refetch"
    /\ \E o \in Outcomes :
        /\ calls' = Append(calls, Call("allPosition", symbol, o = "ok"))
        /\ to_close' = get_current_positions(exch, o, symbol)
        /\ IF o = "malformed" THEN Raise
           ELSE pc' = IF get_current_positions(exch, o, symbol) = << >>
                      THEN "size" ELSE "close"
    /\ UNCHANGED << contract_info, response, success,
                    now, exch, contract_info_cache, cache_update_time, idx, balance,
                    all_positions, market_data, current_price, ai_decision, side, position_size,
                    price_precision, prologue, visited >>

\* close_existing_positions: one iteration of `for position in positions`
CloseOrder ==
    /\ pc = "close"
    /\ LET total == Head(to_close).total
       IN  \E o \in { "ok", "fail", "apiexc" } :
            /\ o = "ok" => CanClose(exch, symbol, CloseSide(total), CloseSize(total))
            /\ calls' = Append(calls, Order(symbol, CloseSide(total), "market",
                                            CloseSize(total), o = "ok"))
            /\ exch' = IF o = "ok"
                       THEN Closed(exch, symbol, CloseSide(total), CloseSize(total))
                       ELSE exch
    /\ to_close' = Tail(to_close)
    /\ pc' = IF Tail(to_close) = << >> THEN "size" ELSE "close"
    /\ UNCHANGED << contract_info, response, success,
                    now, contract_info_cache, cache_update_time, idx, balance,
                    all_positions, market_data, current_price, ai_decision, side, position_size,
                    price_precision, prologue, visited >>

\* position_size = self.calculate_position_size(balance, current_price, symbol)
CalculatePositionSize ==
    /\ pc = "size"
    /\ \E o \in ContractOutcomes :
        LET r == get_contract_info(contract_info_cache, cache_update_time, symbol, now, o)
            size == calculate_position_size(balance, current_price, r.info)
        IN  /\ contract_info_cache' = r.cache
            /\ cache_update_time' = r.times
            /\ contract_info' = r.info
            /\ calls' = IF r.queried
                        THEN Append(calls, Call("contracts", symbol, o.kind = "found"))
                        ELSE calls
            /\ IF r.raised \/ size = ZeroDivision
               THEN Raise /\ position_size' = position_size
               ELSE /\ position_size' = size
                    /\ pc' = IF size > 0 THEN "entry" ELSE "next"
    /\ UNCHANGED << response, success,
                    now, exch, idx, balance, all_positions, market_data, current_price,
                    ai_decision, side, to_close, price_precision, prologue, visited >>

\* place_order_with_stops: the market entry order
PlaceEntry ==
    /\ pc = "entry"
    /\ \E o \in Outcomes :
        LET accepted == o \in { "ok", "malformed" }
        IN  /\ accepted => CanOpen(exch, symbol, side, position_size)
            /\ calls' = Append(calls, Order(symbol, OpenSide(side), "market",
                                            position_size, accepted))
            /\ exch' = IF accepted THEN Opened(exch, symbol, side, position_size)
                       ELSE exch
            /\ IF o = "malformed" THEN Raise /\ success' = success
               ELSE IF EntryAccepted(o) THEN pc' = "stops" /\ success' = success
               ELSE pc' = "next" /\ success' = "False"
    /\ SameIteration
    /\ UNCHANGED << contract_info, response, now, contract_info_cache, cache_update_time,
                    idx, balance, all_positions, prologue, visited >>

\* _set_stop_orders: the contract lookup for the price precision
SetStopOrders ==
    /\ pc = "stops"
    /\ \E o \in ContractOutcomes :
        LET r == get_contract_info(contract_info_cache, cache_update_time, symbol, now, o)
        IN  /\ contract_info_cache' = r.cache
            /\ cache_update_time' = r.times
            /\ contract_info' = r.info
            /\ calls' = IF r.queried
                        THEN Append(calls, Call("contracts", symbol, o.kind = "found"))
                        ELSE calls
            /\ price_precision' = IF r.info = {} THEN 2
                                  ELSE (CHOOSE i \in r.info : TRUE).priceEndStep
            /\ IF r.raised THEN Raise ELSE pc' = "stoploss"
    /\ UNCHANGED << response, success,
                    now, exch, idx, balance, all_positions, market_data, current_price,
                    ai_decision, side, to_close, position_size, prologue, visited >>

\* _set_stop_orders: stop_response = self.order_api.placeOrder(stop_loss_params)
PlaceStopLoss ==
    /\ pc = "stoploss"
    /\ \E o \in { "ok", "fail", "apiexc" } :
        /\ calls' = Append(calls,
               StopOrder(symbol, StopSide(side), "stop_market", position_size,
                         round(stop_price(side, current_price), price_precision),
                         o = "ok"))
        /\ IF o = "apiexc"
           THEN pc' = "next" /\ success' = AfterStops(o)
           ELSE pc' = "takeprofit" /\ success' = success
    /\ SameIteration
    /\ UNCHANGED << contract_info, response, now, exch, contract_info_cache,
                    cache_update_time, idx, balance, all_positions, prologue, visited >>

\* _set_stop_orders: profit_response = self.order_api.placeOrder(take_profit_params)
PlaceTakeProfit ==
    /\ pc = "takeprofit"
    /\ \E o \in { "ok", "fail", "apiexc" } :
        /\ calls' = Append(calls,
               StopOrder(symbol, StopSide(side), "take_profit_market", position_size,
                         round(take_profit_price(side, current_price), price_precision),
                         o = "ok"))
        /\ success' = AfterStops(o)
    /\ pc' = "next"
    /\ SameIteration
    /\ UNCHANGED << contract_info, response, now, exch, contract_info_cache,
                    cache_update_time, idx, balance, all_positions, prologue, visited >>

\* `for symbol in self.symbols`: the next symbol, or the end of the loop and
\* of the cycle
NextSymbol ==
    /\ pc = "next"
    /\ IF idx < Len(symbols)
       THEN /\ idx' = idx + 1
            /\ pc' = "market"
            /\ calls' = << >>
            /\ FreshIteration
            /\ UNCHANGED << balance, all_positions, prologue, visited >>
       ELSE /\ pc' = "idle"
            /\ FreshCycle
    /\ UNCHANGED << response, now, exch, contract_info_cache, cache_update_time >>

\* trading_cycle returns to the scheduler: after the insufficient-balance
\* warning, after the handler of an exception, or with no symbol configured
Return ==
    /\ pc \in { "insufficient", "except", "return" }
    /\ pc' = "idle"
    /\ FreshCycle
    /\ UNCHANGED << response, now, exch, contract_info_cache, cache_update_time >>

\* a position changes outside the cycle (a protective order triggers, the
\* operator trades by hand).  A change shows only in the next step that reads
\* the exchange's positions, so it is taken right before such a step: before
\* the fetch of all positions, and for the symbol being processed before the
\* re-fetch and before each market order.
ExchangeChange ==
    /\ pc \in { "positions", "refetch", "close", "entry" }
    /\ \E s \in Symbols, q \in (0 - MaxPos)..MaxPos :
        /\ IF pc = "positions" THEN TRUE ELSE s = symbol
        /\ q # exch[s]
        /\ exch' = [exch EXCEPT ![s] = q]
    /\ UNCHANGED << contract_info, response, success,
                    now, contract_info_cache, cache_update_time, pc, idx, balance,
                    all_positions, market_data, current_price, ai_decision, side, to_close,
                    position_size, price_precision, prologue, calls, visited >>

Next ==
    \/ GetAccountBalance
    \/ FetchPositions
    \/ GetMarketData
    \/ AnalyzeWithAI
    \/ CloseRefetch
    \/ CloseOrder
    \/ CalculatePositionSize
    \/ PlaceEntry
    \/ SetStopOrders
    \/ PlaceStopLoss
    \/ PlaceTakeProfit
    \/ NextSymbol
    \/ Return
    \/ ExchangeChange

\* The trading cycles.  A cycle lasts seconds and the cache counts hours, so
\* the clock stands still here; CacheSpec lets it run.
Spec == Init /\ [][Next]_vars

\* the steps the process itself takes
ProgramStep ==
    \/ GetAccountBalance
    \/ FetchPositions
    \/ GetMarketData
    \/ AnalyzeWithAI
    \/ CloseRefetch
    \/ CloseOrder
    \/ CalculatePositionSize
    \/ PlaceEntry
    \/ SetStopOrders
    \/ PlaceStopLoss
    \/ PlaceTakeProfit
    \/ NextSymbol
    \/ Return

\* The cycles as start_bot schedules them: the first cycle is called once,
\* then `while True` calls schedule.run_pending() every minute, which calls
\* trading_cycle again when the interval has passed.  A call to the exchange
\* or to the advisory service returns or raises, so the process takes its
\* next step whenever it has one.
FairSpec == Spec /\ WF_vars(ProgramStep)

----------------------------------------------------------------------------
(* The contract cache over time *)

CycleIdle ==
    UNCHANGED << exch, pc, idx, balance, all_positions, market_data, current_price, ai_decision,
                 side, to_close, position_size, price_precision, prologue, calls,
                 visited, success, response >>

\* time passes: half a TTL
Tick ==
    /\ now + cache_ttl \div 2 <= MaxTicks * (cache_ttl \div 2)
    /\ now' = now + cache_ttl \div 2
    /\ UNCHANGED << contract_info_cache, cache_update_time, contract_info >>
    /\ CycleIdle

\* answers of market_api.contracts with two different records of a symbol
CacheOutcomes ==
    { [kind |-> "found", raw |-> [r EXCEPT !.volumePlace = v]] :
        r \in RawContracts, v \in { 2, 3 } }
    \cup { o \in ContractOutcomes : o.kind # "found" }

\* one call contract_info = self.get_contract_info(symbol), as the preload
\* loop of start_bot makes it: idx is the symbol asked for, calls the exchange
\* call this call made; an exception leaves the call without a result
PreloadContract ==
    /\ \E k \in 1..Len(symbols), o \in CacheOutcomes :
        LET r == get_contract_info(contract_info_cache, cache_update_time, symbols[k],
                                   now, o)
        IN  /\ contract_info_cache' = r.cache
            /\ cache_update_time' = r.times
            /\ contract_info' = IF r.raised THEN contract_info ELSE r.info
            /\ idx' = k
            /\ calls' = IF r.queried
                        THEN << Call("contracts", symbols[k], o.kind = "found") >>
                        ELSE << >>
            /\ pc' = IF r.raised THEN "except" ELSE "idle"
    /\ now' = now
    /\ UNCHANGED << exch, balance, all_positions, market_data, current_price,
                    ai_decision, side, to_close, position_size, price_precision,
                    prologue, visited, success, response >>

CacheNext == Tick \/ PreloadContract

CacheSpec == Init /\ [][CacheNext]_vars

----------------------------------------------------------------------------
(* calculate_position_size as a function of its arguments *)

\* balances (whole USDT) and prices (whole USDT, all positive) of the calls
SizingBalances == { 0 - 10, 40, 100, 200, 350, 20000 }
SizingPrices == { 2000, 3000, 10000 }

\* contract records the exchange's list may hold for the symbol: minTradeNum
\* in 10^-3 contracts, with and without a minTradeUSDT, the minimum a multiple
\* of the quantity step or not
SizingContracts ==
    { [minTradeNum |-> n, volumePlace |-> v, priceEndStep |-> 2, minTradeUSDT |-> m] :
        n \in { 1, 15 }, v \in { 2, 3 }, m \in { 0, 10 } }

SizingOutcomes ==
    { [kind |-> "found", raw |-> r] : r \in SizingContracts }
    \cup { [kind |-> k, raw |-> CHOOSE r \in SizingContracts : TRUE] :
             k \in { "absent", "apiexc" } }

SizingInit ==
    /\ now = 0
    /\ exch = NoPositions
    /\ contract_info_cache = << >>
    /\ cache_update_time = << >>
    /\ pc = "size"
    /\ idx = 1
    /\ balance \in SizingBalances
    /\ all_positions = << >>
    /\ market_data = {}
    /\ current_price \in SizingPrices
    /\ ai_decision = HoldDecision
    /\ side = "none"
    /\ to_close = << >>
    /\ position_size = 0
    /\ price_precision = 2
    /\ prologue = << >>
    /\ calls = << >>
    /\ visited = {}
    /\ success = "none"
    /\ response = << >>
    /\ contract_info = {}

\* the arguments of the calls, and everything else the function leaves alone
SizingFrame ==
    UNCHANGED << exch, idx, balance, all_positions, market_data, current_price,
                 ai_decision, side, to_close, price_precision, prologue, calls, visited,
                 success, response >>

\* one call calculate_position_size(balance, current_price, symbol)
SizeCall ==
    /\ pc \in { "size", "sized" }
    /\ \E o \in SizingOutcomes :
        LET r == get_contract_info(contract_info_cache, cache_update_time, symbol, now, o)
        IN  /\ contract_info_cache' = r.cache
            /\ cache_update_time' = r.times
            /\ contract_info' = r.info
            /\ position_size' = calculate_position_size(balance, current_price, r.info)
    /\ pc' = "sized"
    /\ now' = now
    /\ SizingFrame

\* the calls, with time passing between them
SizingNext == SizeCall \/ Tick

SizingSpec == SizingInit /\ [][SizingNext]_vars

\* the contract_info the last call used when it returned a quantity
used_info == contract_info_cache[symbol]

----------------------------------------------------------------------------
(* _set_stop_orders as a function of its arguments *)

\* entry prices (whole USDT) and price precisions (priceEndStep) of the calls
StopPrices == { 100, 101, 125, 5000 }
StopPrecisions == { 0, 1, 2 }

\* _set_stop_orders(side, size, entry_price, symbol), the contract looked up
StopInit ==
    /\ now = 0
    /\ exch = NoPositions
    /\ contract_info_cache = << >>
    /\ cache_update_time = << >>
    /\ pc = "stoploss"
    /\ idx = 1
    /\ balance = 0
    /\ all_positions = << >>
    /\ market_data = {}
    /\ current_price \in StopPrices
    /\ ai_decision = HoldDecision
    /\ side \in { "long", "short" }
    /\ to_close = << >>
    /\ position_size = 1
    /\ price_precision \in StopPrecisions
    /\ prologue = << >>
    /\ calls = << >>
    /\ visited = {}
    /\ success = "none"
    /\ response = << >>
    /\ contract_info = {}

StopNext == PlaceStopLoss \/ PlaceTakeProfit

StopSpec == StopInit /\ [][StopNext]_vars

----------------------------------------------------------------------------
(* _parse_ai_response.  A text is a sequence of characters. *)

lowercase ==
    << "a", "b", "c", "d", "e", "f", "g", "h", "i", "j", "k", "l", "m",
       "n", "o", "p", "q", "r", "s", "t", "u", "v", "w", "x", "y", "z" >>
uppercase ==
    << "A", "B", "C", "D", "E", "F", "G", "H", "I", "J", "K", "L", "M",
       "N", "O", "P", "Q", "R", "S", "T", "U", "V", "W", "X", "Y", "Z" >>
digits == << "0", "1", "2", "3", "4", "5", "6", "7", "8", "9" >>
whitespace == { " ", "\t", "\r", "\n" }

\* str.upper, character by character
upper(text) ==
    [i \in 1..Len(text) |->
        IF \E k \in 1..Len(lowercase) : lowercase[k] = text[i]
        THEN uppercase[CHOOSE k \in 1..Len(lowercase) : lowercase[k] = text[i]]
        ELSE text[i]]

\* text.find(sub) + 1: where the first occurrence of sub starts, 0 without one
find(text, sub) ==
    LET starts == { i \in 1..(Len(text) - Len(sub) + 1) :
                      \A j \in 1..Len(sub) : text[i + j - 1] = sub[j] }
    IN  IF starts = {} THEN 0 ELSE CHOOSE i \in starts : \A k \in starts : i <= k

\* `sub in text`
contains(text, sub) == find(text, sub) # 0

\* text.split(sep), for a separator that is not empty
RECURSIVE split(_, _)
split(text, sep) ==
    IF find(text, sep) = 0 THEN << text >>
    ELSE << SubSeq(text, 1, find(text, sep) - 1) >>
         \o split(SubSeq(text, find(text, sep) + Len(sep), Len(text)), sep)

\* text.strip()
strip(text) ==
    LET inked == { i \in 1..Len(text) : text[i] \notin whitespace }
    IN  IF inked = {} THEN << >>
        ELSE SubSeq(text, CHOOSE i \in inked : \A k \in inked : i <= k,
                          CHOOSE i \in inked : \A k \in inked : i >= k)

\* ''.join(filter(str.isdigit, text))
only_digits(text) ==
    SelectSeq(text, LAMBDA c : \E k \in 1..Len(digits) : digits[k] = c)

\* int(text) of a text of digits that is not empty
RECURSIVE int(_)
int(text) ==
    IF text = << >> THEN 0
    ELSE 10 * int(SubSeq(text, 1, Len(text) - 1))
         + (CHOOSE k \in 1..Len(digits) : digits[k] = text[Len(text)]) - 1

ACTION_ == << "A", "C", "T", "I", "O", "N", ":" >>
CONFIDENCE_ == << "C", "O", "N", "F", "I", "D", "E", "N", "C", "E", ":" >>
REASON_ == << "R", "E", "A", "S", "O", "N", ":" >>
BUY == << "B", "U", "Y" >>
SELL == << "S", "E", "L", "L" >>

\* min(max(confidence, 0), 10)
clamp(n) == Min(Max(n, 0), 10)

\* the body of `for line in lines`
parse_line(decision, line) ==
    IF contains(line, ACTION_)
    THEN LET action_part == strip(split(line, ACTION_)[2])
         IN  [decision EXCEPT !.action = IF contains(action_part, BUY) THEN "buy"
                                          ELSE IF contains(action_part, SELL) THEN "sell"
                                          ELSE "hold"]
    ELSE IF contains(line, CONFIDENCE_)
    THEN LET conf_part == strip(split(line, CONFIDENCE_)[2])
         IN  [decision EXCEPT !.confidence =
                 IF only_digits(conf_part) = << >> THEN 0
                 ELSE clamp(int(only_digits(conf_part)))]
    ELSE IF contains(line, REASON_)
    THEN [decision EXCEPT !.reason = strip(split(line, REASON_)[2])]
    ELSE decision

RECURSIVE parse_lines(_, _)
parse_lines(decision, lines) ==
    IF lines = << >> THEN decision
    ELSE parse_lines(parse_line(decision, Head(lines)), Tail(lines))

parse_ai_response(text) ==
    parse_lines([action |-> "hold", confidence |-> 0, reason |-> << >>],
                split(upper(text), << "\n" >>))

\* lines an advisory text may hold: the fields in both cases, confidences
\* inside and outside 0..10 and without a number, lines without a field
FieldLines ==
    { << "A", "C", "T", "I", "O", "N", ":", " ", "B", "U", "Y" >>,
      << "a", "c", "t", "i", "o", "n", ":", " ", "s", "e", "l", "l" >>,
      << "A", "C", "T", "I", "O", "N", ":", " ", "w", "a", "i", "t" >>,
      << "C", "O", "N", "F", "I", "D", "E", "N", "C", "E", ":", " ", "8" >>,
      << "C", "O", "N", "F", "I", "D", "E", "N", "C", "E", ":", " ", "-", "5" >>,
      << "C", "O", "N", "F", "I", "D", "E", "N", "C", "E", ":", " ", "1", "5" >>,
      << "C", "O", "N", "F", "I", "D", "E", "N", "C", "E", ":", " ", "h", "i", "g", "h" >>,
      << "R", "E", "A", "S", "O", "N", ":", " ", "u", "p", "t", "r", "e", "n", "d" >> }

PlainLines ==
    { << "n", "o", " ", "a", "d", "v", "i", "c", "e" >>,
      << >> }

\* bound: the number of lines of an advisory text
MaxLines == 3

RECURSIVE TextsOf(_)
TextsOf(n) ==
    IF n = 1 THEN FieldLines \cup PlainLines
    ELSE { head \o << "\n" >> \o line :
             head \in TextsOf(n - 1), line \in FieldLines \cup PlainLines }

Responses == UNION { TextsOf(n) : n \in 1..MaxLines }

ParseInit ==
    /\ now = 0
    /\ exch = NoPositions
    /\ contract_info_cache = << >>
    /\ cache_update_time = << >>
    /\ pc = "parse"
    /\ idx = 1
    /\ balance = 0
    /\ all_positions = << >>
    /\ market_data = {}
    /\ current_price = 0
    /\ ai_decision = HoldDecision
    /\ side = "none"
    /\ to_close = << >>
    /\ position_size = 0
    /\ price_precision = 2
    /\ prologue = << >>
    /\ calls = << >>
    /\ visited = {}
    /\ success = "none"
    /\ response \in Responses
    /\ contract_info = {}

\* decision = self._parse_ai_response(analysis)
ParseAIResponse ==
    /\ pc = "parse"
    /\ ai_decision' = parse_ai_response(response)
    /\ pc' = "parsed"
    /\ UNCHANGED << now, exch, contract_info_cache, cache_update_time, idx, balance,
                    all_positions, market_data, current_price, side, to_close,
                    position_size, price_precision, prologue, calls, visited, success,
                    response,
                    contract_info >>

ParseNext == ParseAIResponse

ParseSpec == ParseInit /\ [][ParseNext]_vars

----------------------------------------------------------------------------
(* Properties of a trading cycle *)

\* the cycle has made the advisory call for the current symbol
Advised == \E i \in 1..Len(calls) : calls[i].api = "advisory"

\* the cycle has called close_existing_positions for the current symbol
Reconciling == \E i \in 1..Len(calls) : calls[i].api = "allPosition"

NoOrder == \A i \in 1..Len(calls) : ~IsOrder(calls[i])

IsEntry(c) == IsOrder(c) /\ c.side \in { "open_long", "open_short" }

\* the step that submits the entry order
SubmitsEntry == pc = "entry" /\ calls' # calls

\* C1: a cycle whose fetched balance is below min_balance (the 0.0 of a failed
\* balance call included) makes no call but the balance call: no position,
\* market-data or advisory call and no order, and no symbol is processed.
C1_InsufficientBalanceStops ==
    (pc # "idle" /\ balance < min_balance) =>
        /\ pc \in { "insufficient", "except" }
        /\ Len(prologue) = 1 /\ prologue[1].api = "accounts"
        /\ calls = << >>
        /\ visited = {}

C1_Witness ==
    pc = "insufficient" /\ balance = 5 /\ prologue = << Call("accounts", "", TRUE) >>

\* C2: an entry order submitted after close_existing_positions ran finds the
\* position opposite to the entry closed or absent, whatever the re-fetch and
\* the close order answered.
C2_EntryAfterOpposingClosed ==
    [][(SubmitsEntry /\ Reconciling) => Held(exch, symbol, Opposite(side)) = 0]_vars

\* C3: when the positions of the cycle show a position of signed size q
\* opposite to the direction entered, every entry order for the symbol comes
\* after a market close order of size |q| on the side the sign of q gives.
C3_CloseBeforeEntry ==
    \A j \in 1..Len(calls) :
        (IsEntry(calls[j]) /\ MustCloseFirst(side, all_positions, symbol)) =>
            \E i \in 1..(j - 1), k \in 1..Len(all_positions) :
                /\ all_positions[k].symbol = symbol
                /\ calls[i] = Order(symbol, CloseSide(all_positions[k].total), "market",
                                    CloseSize(all_positions[k].total), calls[i].ok)

\* C4: no entry order in a direction is submitted while the exchange holds a
\* position of the symbol in that direction.
C4_NoSecondPosition ==
    [][SubmitsEntry => Held(exch, symbol, side) = 0]_vars

\* C5: a failure while the loop processes one symbol does not keep the cycle
\* from processing the symbols after it: a cycle that entered the loop ends
\* with every configured symbol processed.
C5_LaterSymbolsProcessed ==
    (pc = "except" /\ idx >= 1) => visited = Symbols

\* get_market_data returned no data, or data with a zero price
NoPrice == market_data \subseteq {[current_price |-> 0]}

\* C6: after get_market_data returned no data or no price for a symbol, the
\* ticker call is the only call made for that symbol (no advisory call, no
\* order), and the loop goes on with the next symbol of the list.
C6_MissingMarketDataSkips ==
    /\ [](( calls # << >> /\ pc # "except" /\ NoPrice) =>
            /\ pc = "next"
            /\ Len(calls) = 1 /\ calls[1].api = "ticker")
    /\ [][( pc = "next" /\ NoPrice /\ idx < Len(symbols)) =>
            /\ pc' = "market" /\ idx' = idx + 1
            /\ visited' = visited /\ prologue' = prologue ]_vars

C6_Witness ==
    /\ pc = "next" /\ idx = 1
    /\ market_data = {[current_price |-> 0]}
    /\ calls = << Call("ticker", symbols[1], TRUE) >>

\* C7: a symbol whose advisory decision has a confidence below the threshold
\* (the hold/0 of a failed advisory call included) gets no order.
C7_LowConfidenceNoOrder ==
    (Advised /\ ai_decision.confidence < confidence_threshold) =>
        (NoOrder /\ pc = "next")

C7_Witness ==
    /\ Advised /\ pc = "next"
    /\ ai_decision = [action |-> "buy", confidence |-> confidence_threshold - 1]

\* C8: a symbol whose advisory action is hold, or is buy (sell) while a long
\* (short) position of it is among the positions fetched at the start of the
\* cycle, gets no order, whatever the confidence.
C8_HoldOrHeldNoOrder ==
    ( /\ Advised
      /\ \/ ai_decision.action = "hold"
         \/ ai_decision.action = "buy" /\ has_long_position(all_positions, symbol)
         \/ ai_decision.action = "sell" /\ has_short_position(all_positions, symbol) )
    => (NoOrder /\ pc = "next")

C8_Witness ==
    /\ Advised /\ pc = "next"
    /\ ai_decision = [action |-> "sell", confidence |-> confidence_threshold]
    /\ has_short_position(all_positions, symbol)

\* C9: a symbol whose contract lookup failed in this cycle (absent from the
\* contract list, non-success response or API exception, nothing fresh in the
\* cache) gets no order in this cycle, not even a close.
C9_NoContractNoOrder ==
    ( /\ pc # "except"
      /\ \E i \in 1..Len(calls) : calls[i].api = "contracts" /\ ~calls[i].ok )
    => NoOrder

\* C10: an entry order answered by a non-success code or by an API exception
\* is the last call made for the symbol (no stop-loss, no take-profit), and
\* place_order_with_stops is back in the loop.
C10_FailedEntryNoStops ==
    \A i \in 1..Len(calls) :
        (IsEntry(calls[i]) /\ ~calls[i].ok) => (i = Len(calls) /\ pc = "next")

C10_Witness ==
    /\ pc = "next" /\ calls # << >>
    /\ IsEntry(calls[Len(calls)]) /\ ~calls[Len(calls)].ok

IsStopLoss(c) == IsOrder(c) /\ c.orderType = "stop_market"
IsTakeProfit(c) == IsOrder(c) /\ c.orderType = "take_profit_market"

\* C11: the stop-loss and the take-profit order are submitted independently:
\* when the work on a symbol is done, every stop-loss submission was followed
\* by a take-profit submission, whatever the stop-loss submission was answered
\* (a non-success code or an API exception included).
C11_TakeProfitWhateverStopLoss ==
    pc = "next" =>
        \A i \in 1..Len(calls) :
            IsStopLoss(calls[i]) =>
                \E j \in (i + 1)..Len(calls) : IsTakeProfit(calls[j])

\* C12: once the entry order was accepted and its order id read,
\* place_order_with_stops returns True whatever the two protective orders were
\* answered, and the calls after the entry hold no market order (nothing
\* closes the entry) and at most one stop-loss and one take-profit submission
\* (a failed protective order is not submitted again).
C12_EntryStandsAfterStops ==
    \A i \in 1..Len(calls) :
        (IsEntry(calls[i]) /\ calls[i].ok /\ pc # "except") =>
            /\ pc \in { "stops", "stoploss", "takeprofit", "next" }
            /\ success = IF pc = "next" THEN "True" ELSE "none"
            /\ \A j \in (i + 1)..Len(calls) :
                    IsOrder(calls[j]) => (IsStopLoss(calls[j]) \/ IsTakeProfit(calls[j]))
            /\ Cardinality({ j \in 1..Len(calls) : IsStopLoss(calls[j]) }) <= 1
            /\ Cardinality({ j \in 1..Len(calls) : IsTakeProfit(calls[j]) }) <= 1

C12_Witness ==
    /\ pc = "next" /\ success = "True" /\ Len(calls) >= 3
    /\ IsEntry(calls[Len(calls) - 2]) /\ calls[Len(calls) - 2].ok
    /\ IsStopLoss(calls[Len(calls) - 1]) /\ ~calls[Len(calls) - 1].ok
    /\ IsTakeProfit(calls[Len(calls)]) /\ ~calls[Len(calls)].ok

\* the notional of the quantity the last call returned, in milli-USDT
final_notional == position_size * current_price

\* C13: the quantity calculate_position_size returns is never negative, is a
\* multiple of the quantity step 10^-volumePlace, and is 0 or at least
\* minTradeNum, on the path that forces the minimum and rounds it up too.
C13_QuantityWellFormed ==
    pc = "sized" =>
        /\ position_size >= 0
        /\ position_size > 0 =>
              /\ position_size % Step(used_info) = 0
              /\ position_size >= used_info.minTradeNum

\* a quantity forced up to a minimum that is no multiple of the step
C13_Witness ==
    /\ pc = "sized" /\ position_size = 20
    /\ used_info.minTradeNum = 15 /\ Step(used_info) = 10

\* C14: a quantity that is not 0 has a notional of at least the effective
\* minimum max(minTradeUSDT, minTradeNum * price, 5).
C14_NotionalAtLeastEffectiveMinimum ==
    (pc = "sized" /\ position_size > 0) =>
        final_notional >= EffectiveMinimum(current_price, used_info)

\* C14, amended: a quantity that is not 0 has a notional of at least the
\* minimum in force: the effective minimum when the candidate notional
\* reaches it, else the relaxed minimum minTradeNum * price.
C14_NotionalAtLeastMinimumInForce ==
    (pc = "sized" /\ position_size > 0) =>
        final_notional >=
            IF CandidateNotional(balance) < EffectiveMinimum(current_price, used_info)
            THEN used_info.minTradeNum * current_price
            ELSE EffectiveMinimum(current_price, used_info)

\* a quantity returned under the relaxed minimum
C14_Witness ==
    /\ pc = "sized" /\ position_size > 0
    /\ CandidateNotional(balance) < EffectiveMinimum(current_price, used_info)

\* C15: a quantity that is not 0 has a notional of at most 95% of the balance.
C15_NotionalWithinBalance ==
    (pc = "sized" /\ position_size > 0) => final_notional * 100 <= balance * 1000 * 95

\* a quantity forced up to the minimum and still within 95% of the balance
C15_Witness ==
    /\ pc = "sized" /\ position_size > 0
    /\ final_notional > CandidateNotional(balance)
    /\ final_notional * 100 <= balance * 1000 * 95

\* C16: a quantity that is not 0 has a notional of at most the candidate
\* notional min(balance * max_position_percent / 100, max_position_value).
C16_NotionalWithinCaps ==
    (pc = "sized" /\ position_size > 0) => final_notional <= CandidateNotional(balance)

\* C17: two calls with the same balance, price and symbol return the same
\* quantity, whatever happened between them (the arguments never change in
\* SizingSpec, so every call after the first repeats it).
C17_SameArgumentsSameQuantity ==
    [][pc = "sized" => position_size' = position_size]_vars

\* x is the multiple of 10^-price_precision nearest to the exact price y
\* (both in hundredths of a USDT)
NearestTo(x, y) ==
    LET unit == IF price_precision >= 2 THEN 1 ELSE Pow10(2 - price_precision)
    IN  x % unit = 0 /\ 2 * Abs(x - y) <= unit

\* C18: the stop-loss trigger of a long (short) entry at price p is
\* p * (1 - 2/100) (p * (1 + 2/100)) and its take-profit trigger is
\* p * (1 + 6/100) (p * (1 - 6/100)), each rounded to the price precision;
\* p = 100 with precision 2 gives 98.00 / 106.00 long and 102.00 / 94.00 short.
C18_TriggerPrices ==
    \A i \in 1..Len(calls) :
        LET c == calls[i]
            p == current_price
        IN  /\ (IsStopLoss(c) /\ side = "long") =>
                  NearestTo(c.triggerPrice, p * 100 - p * 2)
            /\ (IsStopLoss(c) /\ side = "short") =>
                  NearestTo(c.triggerPrice, p * 100 + p * 2)
            /\ (IsTakeProfit(c) /\ side = "long") =>
                  NearestTo(c.triggerPrice, p * 100 + p * 6)
            /\ (IsTakeProfit(c) /\ side = "short") =>
                  NearestTo(c.triggerPrice, p * 100 - p * 6)
            /\ (p = 100 /\ price_precision = 2) =>
                  /\ (IsStopLoss(c) /\ side = "long") => c.triggerPrice = 9800
                  /\ (IsTakeProfit(c) /\ side = "long") => c.triggerPrice = 10600
                  /\ (IsStopLoss(c) /\ side = "short") => c.triggerPrice = 10200
                  /\ (IsTakeProfit(c) /\ side = "short") => c.triggerPrice = 9400

\* both protective orders of a short entry at 101, rounded to one place:
\* 103.02 gives 103.0 and 94.94 gives 94.9
C18_Witness ==
    /\ pc = "next" /\ side = "short" /\ current_price = 101 /\ price_precision = 1
    /\ Len(calls) = 2
    /\ IsStopLoss(calls[1]) /\ calls[1].triggerPrice = 10300
    /\ IsTakeProfit(calls[2]) /\ calls[2].triggerPrice = 9490

\* the lines of the advisory text
response_lines == split(response, << "\n" >>)

\* the text "ACTION: BUY\nCONFIDENCE: 8\nREASON: uptrend"
ExampleResponse ==
    << "A", "C", "T", "I", "O", "N", ":", " ", "B", "U", "Y" >> \o << "\n" >>
    \o << "C", "O", "N", "F", "I", "D", "E", "N", "C", "E", ":", " ", "8" >> \o << "\n" >>
    \o << "R", "E", "A", "S", "O", "N", ":", " ", "u", "p", "t", "r", "e", "n", "d" >>

\* C19: parsing "ACTION: BUY\nCONFIDENCE: 8\nREASON: uptrend" gives action buy,
\* confidence 8 and the reason "uptrend" as the response wrote it.
C19_ExampleParsed ==
    (pc = "parsed" /\ response = ExampleResponse) =>
        ai_decision = [action |-> "buy", confidence |-> 8,
                       reason |-> << "u", "p", "t", "r", "e", "n", "d" >>]

\* the number a CONFIDENCE line of the texts states: none for a line without
\* a number
StatedConfidence(line) ==
    IF line = << "C", "O", "N", "F", "I", "D", "E", "N", "C", "E", ":", " ", "8" >> THEN { 8 }
    ELSE IF line = << "C", "O", "N", "F", "I", "D", "E", "N", "C", "E", ":", " ", "-", "5" >>
    THEN { 0 - 5 }
    ELSE IF line = << "C", "O", "N", "F", "I", "D", "E", "N", "C", "E", ":", " ", "1", "5" >>
    THEN { 15 }
    ELSE { }

IsConfidenceLine(line) == contains(upper(line), CONFIDENCE_)

\* C20: every advisory text parses to an action in {buy, sell, hold} and a
\* confidence in 0..10; a text of lines without a field gives hold, 0 and the
\* empty reason; the last CONFIDENCE line gives 0 when it states no number and
\* else its number, brought to the nearest bound when outside 0..10.
C20_ParseTotalAndClamped ==
    pc = "parsed" =>
        /\ ai_decision.action \in Actions
        /\ ai_decision.confidence \in 0..10
        /\ (\A i \in 1..Len(response_lines) : response_lines[i] \in PlainLines) =>
               ai_decision = [action |-> "hold", confidence |-> 0, reason |-> << >>]
        /\ \A i \in 1..Len(response_lines) :
               ( /\ IsConfidenceLine(response_lines[i])
                 /\ \A j \in (i + 1)..Len(response_lines) :
                        ~IsConfidenceLine(response_lines[j]) )
               => /\ StatedConfidence(response_lines[i]) = {} =>
                        ai_decision.confidence = 0
                  /\ \A n \in StatedConfidence(response_lines[i]) :
                        ai_decision.confidence = IF n < 0 THEN 0
                                                 ELSE IF n > 10 THEN 10 ELSE n

\* C21: get_contract_info answers from the cache, without a call to the
\* exchange, exactly when the symbol has an entry younger than cache_ttl; else
\* it asks the exchange, stores a record found with the current time and
\* returns it, and returns the empty dict (not the expired entry) when the
\* refresh failed.  So a returned contract_info was fetched less than
\* cache_ttl ago.
C21_CachedExactlyWhileYoung ==
    [][(now' = now /\ pc' # "except") =>
        LET s     == symbols[idx']
            young == /\ s \in DOMAIN contract_info_cache
                     /\ s \in DOMAIN cache_update_time
                     /\ now - cache_update_time[s] < cache_ttl
        IN  /\ IF young
               THEN /\ calls' = << >>
                    /\ contract_info' = { contract_info_cache[s] }
                    /\ UNCHANGED << contract_info_cache, cache_update_time >>
               ELSE /\ Len(calls') = 1 /\ calls'[1].api = "contracts"
                    /\ IF calls'[1].ok
                       THEN /\ contract_info' = { contract_info_cache'[s] }
                            /\ cache_update_time'[s] = now
                       ELSE /\ contract_info' = {}
                            /\ UNCHANGED << contract_info_cache, cache_update_time >>
            /\ contract_info' # {} => now - cache_update_time'[s] < cache_ttl
    ]_vars

\* a failed refresh of an expired entry returned the empty dict
C21_Witness ==
    /\ idx >= 1 /\ pc = "idle"
    /\ symbols[idx] \in DOMAIN contract_info_cache
    /\ now - cache_update_time[symbols[idx]] >= cache_ttl
    /\ calls = << Call("contracts", symbols[idx], FALSE) >>
    /\ contract_info = {}

\* C22: an exception raised at a step of a trading cycle reaches the handler
\* of trading_cycle, which only logs: the cycle ends there with no further
\* call, the process goes back to waiting for the schedule, and cycles keep
\* being started and ended for ever.
C22_ExceptionEndsOnlyTheCycle ==
    /\ [][pc = "except" =>
            /\ pc' = "idle"
            /\ UNCHANGED << exch, contract_info_cache, cache_update_time >>]_vars
    /\ (pc = "except") ~> (pc = "idle")
    /\ []<>(pc = "idle")
    /\ []<>(pc # "idle")

\* an exception raised inside the loop over the symbols, after a call made
\* for the symbol
C22_Witness ==
    /\ pc = "except"
    /\ idx >= 1
    /\ calls # << >>

\* a market order that closes a position: the order of close_existing_positions
IsClose(c) ==
    IsOrder(c) /\ c.orderType = "market" /\ c.side \in { "close_long", "close_short" }

\* C23: when the work on a symbol is done, every close order submitted for
\* it by the reconciliation was followed by an entry order for it: no close
\* is left without a new entry because the sizing returned 0.
C23_CloseFollowedByEntry ==
    pc = "next" =>
        \A i \in 1..Len(calls) :
            IsClose(calls[i]) =>
                \E j \in (i + 1)..Len(calls) :
                    IsEntry(calls[j]) /\ calls[j].side = OpenSide(side)

\* C24: every stop-loss and take-profit order in the calls for a symbol comes
\* after an accepted market entry order for that symbol, has the size of
\* that entry and the side that closes it (close_long after open_long,
\* close_short after open_short); the stop-loss comes before the take-profit,
\* a take-profit has a stop-loss between the entry and itself, and there is
\* at most one entry, one stop-loss and one take-profit.
C24_StopsFollowTheirEntry ==
    /\ \A k \in 1..Len(calls) :
          (IsStopLoss(calls[k]) \/ IsTakeProfit(calls[k])) =>
              \E i \in 1..(k - 1) :
                  /\ IsEntry(calls[i]) /\ calls[i].ok
                  /\ calls[i].orderType = "market"
                  /\ calls[i].symbol = calls[k].symbol
                  /\ calls[i].size = calls[k].size
                  /\ calls[k].side = IF calls[i].side = "open_long"
                                     THEN "close_long" ELSE "close_short"
                  /\ IF IsStopLoss(calls[k])
                     THEN \A j \in 1..(k - 1) : ~IsTakeProfit(calls[j])
                     ELSE \E j \in (i + 1)..(k - 1) : IsStopLoss(calls[j])
    /\ Cardinality({ k \in 1..Len(calls) : IsEntry(calls[k]) }) <= 1
    /\ Cardinality({ k \in 1..Len(calls) : IsStopLoss(calls[k]) }) <= 1
    /\ Cardinality({ k \in 1..Len(calls) : IsTakeProfit(calls[k]) }) <= 1

\* a short entry after a reconciliation close, then its two protective orders
C24_Witness ==
    /\ pc = "next" /\ Len(calls) >= 4
    /\ \E i \in 1..(Len(calls) - 3) : IsClose(calls[i])
    /\ calls[Len(calls) - 2].side = "open_short" /\ calls[Len(calls) - 2].ok
    /\ IsStopLoss(calls[Len(calls) - 1]) /\ calls[Len(calls) - 1].side = "close_short"
    /\ IsTakeProfit(calls[Len(calls)]) /\ calls[Len(calls)].side = "close_short"

\* how many calls of an API the cycle has made: before the loop and, inside
\* the loop, for the current symbol
Reads(api) ==
    Cardinality({ i \in 1..Len(prologue \o calls) : (prologue \o calls)[i].api = api })

\* C25: within a cycle the exchange is asked for the balance exactly once
\* and for the positions exactly once, both before the loop.
C25_ReadExactlyOnce ==
    pc # "idle" =>
        /\ Reads("accounts") = 1
        /\ Reads("allPosition") <= 1
        /\ idx >= 1 => Reads("allPosition") = 1

\* C25, amended: the balance is asked for once, first in the cycle, and the
\* list for the presence tests once, second in the cycle; neither variable
\* changes while the loop runs, whatever was closed or entered, and the
\* quantity to enter is computed from that balance.  The positions are asked
\* for again only by close_existing_positions, at most once for a symbol, and
\* that happens exactly when the list of the start shows, for a confident
\* buy (sell), a short and no long (a long and no short) of the symbol.
C25_BalanceAndPresenceFromStart ==
    /\ [](pc # "idle" =>
            /\ Reads("accounts") = 1 /\ prologue[1].api = "accounts"
            /\ idx >= 1 => (Len(prologue) = 2 /\ prologue[2].api = "allPosition")
            /\ Cardinality({ i \in 1..Len(calls) : calls[i].api = "allPosition" }) <= 1
            /\ (Advised /\ idx >= 1) =>
                  ( (Reconciling \/ pc = "refetch") <=>
                      /\ ai_decision.confidence >= confidence_threshold
                      /\ \/ /\ ai_decision.action = "buy"
                            /\ has_short_position(all_positions, symbol)
                            /\ ~has_long_position(all_positions, symbol)
                         \/ /\ ai_decision.action = "sell"
                            /\ has_long_position(all_positions, symbol)
                            /\ ~has_short_position(all_positions, symbol) )
            /\ pc = "entry" =>
                  position_size = calculate_position_size(balance, current_price,
                                                          contract_info))
    /\ [][(pc # "idle" /\ pc' # "idle") => balance' = balance]_vars
    /\ [][(pc \notin { "idle", "positions" } /\ pc' # "idle") =>
            all_positions' = all_positions]_vars

\* the second symbol is about to be entered after its opposing position was
\* fetched again and closed
C25_Witness ==
    /\ pc = "entry" /\ idx = 2 /\ position_size > 0
    /\ Reads("accounts") = 1 /\ Reads("allPosition") = 2
    /\ \E i \in 1..Len(calls) : IsClose(calls[i]) /\ calls[i].ok

====
